---- MODULE Spec2Model ----
(***************************************************************************)
(* A model of the mini-React runtime of packages/react/src/core:           *)
(* the reconciler (reconciler.ts), the hook store (context.ts, hooks.ts),  *)
(* the render scheduler (render.ts), the setup entry point (setup.ts) and  *)
(* the DOM adapter (dom.ts).  The runtime is driven by a small family of   *)
(* applications (root VNodes and component functions) and by an event loop *)
(* that runs synchronous windows of user calls followed by microtasks.     *)
(***************************************************************************)
EXTENDS Integers, Sequences, FiniteSets, TLC

(***************************************************************************)
(* Bounds of the exploration                                               *)
(***************************************************************************)
\* render passes (calls of render) explored per behaviour
MaxPasses == 3
\* user calls (setup, state setters) inside one synchronous window
MaxCalls == 2
\* successful calls of setup explored per behaviour
MaxSetups == 2

(***************************************************************************)
(* Values                                                                  *)
(***************************************************************************)
\* a VNode key of null (elements.ts: key ?? null)
NullKey == "null"
\* the type of text VNodes and of fragments (constants.ts symbols)
TEXT_ELEMENT == "TEXT_ELEMENT"
Fragment == "Fragment"
\* a null VNode: a component returning null, or setup(null, ...)
NullVNode == [type |-> "null"]
\* a null Instance
NoInstance == [kind |-> "null"]
\* a null host node reference, and the host container of the page
NoDom == 0
Container == 1
\* the value JavaScript reads from an array index that holds nothing
Undefined == -1
\* the value JavaScript writes for a removed generic property
UndefinedProp == "undefined"

HostTags == {"div", "span", "p", "ul", "li"}
ComponentTypes == {"App", "Counter", "Other", "Wrap"}
EventKeys == {"onClick"}
DataKeys == {"data-id"}
StyleKeys == {"color", "width"}
Handlers == {"h1", "h2"}

EmptyMap == [k \in {} |-> 0]
Put(f, k, v) == (k :> v) @@ f
Drop(f, ks) == [k \in DOMAIN f \ ks |-> f[k]]
Last(s) == s[Len(s)]
Max(a, b) == IF a >= b THEN a ELSE b
RemoveAt(s, i) == SubSeq(s, 1, i - 1) \o SubSeq(s, i + 1, Len(s))
IndexOf(s, x) == CHOOSE i \in 1..Len(s) : s[i] = x
Range(s) == {s[i] : i \in 1..Len(s)}

(***************************************************************************)
(* The DOM: host nodes are numbered; node 1 is the container.              *)
(***************************************************************************)
NewNode(tag, value) ==
  [tag |-> tag, nodeValue |-> value, parentNode |-> NoDom, childNodes |-> <<>>,
   listeners |-> {}, className |-> "", style |-> [s \in StyleKeys |-> ""],
   attrs |-> EmptyMap, fields |-> EmptyMap]

\* the event name of an on<Event> key: key.slice(2).toLowerCase()
EventName(key) == IF key = "onClick" THEN "click" ELSE key

\* key.startsWith("on") && typeof props[key] === "function"
IsEventProp(key, props) == key \in EventKeys /\ props[key] \in Handlers
IsStyleProp(key, props) == key = "style"
IsDataProp(key) == key \in DataKeys
IsGenericProp(key, props) ==
  /\ key # "children"
  /\ ~IsEventProp(key, props)
  /\ key # "className"
  /\ ~IsStyleProp(key, props)
  /\ ~IsDataProp(key)

\* dom.ts setDomProps, on the record of one host node
setDomProps(n, props) ==
  LET keys == DOMAIN props \ {"children"}
      ev == {k \in keys : IsEventProp(k, props)}
      da == {k \in keys : IsDataProp(k)}
      ge == {k \in keys : IsGenericProp(k, props)}
  IN [n EXCEPT
       !.listeners = @ \cup {<<EventName(k), props[k]>> : k \in ev},
       !.className = IF "className" \in keys THEN props.className ELSE @,
       !.style = IF "style" \in keys
                 THEN [s \in StyleKeys |->
                         IF s \in DOMAIN props.style THEN props.style[s] ELSE @[s]]
                 ELSE @,
       !.attrs = [a \in DOMAIN @ \cup da |-> IF a \in da THEN props[a] ELSE @[a]],
       !.fields = [f \in DOMAIN @ \cup ge |-> IF f \in ge THEN props[f] ELSE @[f]]]

\* dom.ts updateDomProps: the removal loop over prevProps, then setDomProps
updateDomProps(n, prevProps, nextProps) ==
  LET keys == DOMAIN prevProps \ {"children"}
      ev == {k \in keys : IsEventProp(k, prevProps)}
      goneStyle == IF "style" \in keys
                   THEN {s \in DOMAIN prevProps.style :
                           \/ "style" \notin DOMAIN nextProps
                           \/ s \notin DOMAIN nextProps.style}
                   ELSE {}
      goneData == {k \in keys : IsDataProp(k) /\ k \notin DOMAIN nextProps}
      goneField == {k \in keys : IsGenericProp(k, prevProps) /\ k \notin DOMAIN nextProps}
      cleared ==
        [n EXCEPT
          !.listeners = @ \ {<<EventName(k), prevProps[k]>> : k \in ev},
          !.style = [s \in StyleKeys |-> IF s \in goneStyle THEN "" ELSE @[s]],
          !.attrs = Drop(@, goneData),
          !.fields = [f \in DOMAIN @ \cup goneField |->
                        IF f \in goneField THEN UndefinedProp ELSE @[f]]]
  IN setDomProps(cleared, nextProps)

(***************************************************************************)
(* The runtime heap threaded through one handler.  Its fields are the      *)
(* module's variables: h.dom is the page, h.state / h.cursor / h.visited / *)
(* h.componentStack are context.hooks, h.queue is context.effects.queue.   *)
(***************************************************************************)
LogOp(h, op, node, parent) ==
  [h EXCEPT !.domOps = Append(@, [op |-> op, node |-> node, parent |-> parent])]

\* document.createTextNode / document.createElement: the new node is NewId(h)
NewId(h) == Len(h.dom) + 1
documentCreateTextNode(h, value) ==
  LogOp([h EXCEPT !.dom = Append(@, NewNode("#text", value))], "create", NewId(h), NoDom)
documentCreateElement(h, tag) ==
  LogOp([h EXCEPT !.dom = Append(@, NewNode(tag, ""))], "create", NewId(h), NoDom)

\* a node leaves the child list of its parent, if it has one
Detach(dom, n) ==
  IF dom[n].parentNode = NoDom THEN dom
  ELSE [dom EXCEPT ![dom[n].parentNode].childNodes = RemoveAt(@, IndexOf(@, n)),
                   ![n].parentNode = NoDom]

\* parent.appendChild(n): n moves to the end of parent's children
appendChild(h, parent, n) ==
  LET d == Detach(h.dom, n)
  IN LogOp([h EXCEPT !.dom = [d EXCEPT ![parent].childNodes = Append(@, n),
                                        ![n].parentNode = parent]],
           "append", n, parent)

\* parent.insertBefore(n, ref): ref null appends; ref must be a child of parent
insertBefore(h, parent, n, ref) ==
  IF ref = NoDom THEN appendChild(h, parent, n)
  ELSE IF ref \notin Range(h.dom[parent].childNodes) THEN [h EXCEPT !.error = "NotFoundError"]
  ELSE IF ref = n THEN h
  ELSE LET d == Detach(h.dom, n)
           i == IndexOf(d[parent].childNodes, ref)
       IN LogOp([h EXCEPT !.dom =
                   [d EXCEPT ![parent].childNodes =
                               SubSeq(@, 1, i - 1) \o <<n>> \o SubSeq(@, i, Len(@)),
                             ![n].parentNode = parent]],
                "insert", n, parent)

\* parent.removeChild(n), called only for children of parent
removeChild(h, parent, n) ==
  LogOp([h EXCEPT !.dom = Detach(@, n)], "remove", n, parent)

\* node.nextSibling
nextSiblingOf(dom, n) ==
  LET p == dom[n].parentNode
      i == IndexOf(dom[p].childNodes, n)
  IN IF p = NoDom THEN NoDom
     ELSE IF i < Len(dom[p].childNodes) THEN dom[p].childNodes[i + 1] ELSE NoDom

(***************************************************************************)
(* Instances (types.ts Instance) and the DOM helpers of dom.ts             *)
(***************************************************************************)
TEXT == "text"
HOST == "host"
FRAGMENT == "fragment"
COMPONENT == "component"

RECURSIVE getDomNodes(_)
RECURSIVE getDomNodesOfAll(_)
\* dom.ts getDomNodes
getDomNodes(instance) ==
  IF instance = NoInstance THEN <<>>
  ELSE IF instance.kind \in {TEXT, HOST}
       THEN (IF instance.dom # NoDom THEN <<instance.dom>> ELSE <<>>)
  ELSE getDomNodesOfAll(instance.children)
\* the forEach of getDomNodes over instance.children
getDomNodesOfAll(children) ==
  IF children = <<>> THEN <<>>
  ELSE getDomNodes(Head(children)) \o getDomNodesOfAll(Tail(children))

RECURSIVE getFirstDom(_)
RECURSIVE getFirstDomFromChildren(_)
\* dom.ts getFirstDom
getFirstDom(instance) ==
  IF instance = NoInstance THEN NoDom
  ELSE IF instance.kind \in {TEXT, HOST} THEN instance.dom
  ELSE getFirstDomFromChildren(instance.children)
\* dom.ts getFirstDomFromChildren
getFirstDomFromChildren(children) ==
  IF children = <<>> THEN NoDom
  ELSE LET d == getFirstDom(Head(children))
       IN IF d # NoDom THEN d ELSE getFirstDomFromChildren(Tail(children))

RECURSIVE insertRest(_, _, _, _)
\* the loop of insertInstance over domNodes[1..] with an anchor
insertRest(h, parentDom, domNodes, i) ==
  IF i > Len(domNodes) THEN h
  ELSE insertRest(insertBefore(h, parentDom, domNodes[i],
                               nextSiblingOf(h.dom, domNodes[i - 1])),
                  parentDom, domNodes, i + 1)

RECURSIVE appendAll(_, _, _)
\* the forEach of insertInstance without an anchor
appendAll(h, parentDom, domNodes) ==
  IF domNodes = <<>> THEN h
  ELSE appendAll(appendChild(h, parentDom, Head(domNodes)), parentDom, Tail(domNodes))

\* dom.ts insertInstance
insertInstance(h, parentDom, instance, anchor) ==
  LET domNodes == getDomNodes(instance)
  IN IF instance = NoInstance \/ domNodes = <<>> THEN h
     ELSE IF anchor # NoDom
          THEN insertRest(insertBefore(h, parentDom, domNodes[1], anchor),
                          parentDom, domNodes, 2)
     ELSE appendAll(h, parentDom, domNodes)

RECURSIVE removeAll(_, _, _)
\* the forEach of removeInstance
removeAll(h, parentDom, domNodes) ==
  IF domNodes = <<>> THEN h
  ELSE LET n == Head(domNodes)
           h1 == IF h.dom[n].parentNode = parentDom THEN removeChild(h, parentDom, n) ELSE h
       IN removeAll(h1, parentDom, Tail(domNodes))

\* dom.ts removeInstance
removeInstance(h, parentDom, instance) ==
  IF instance = NoInstance THEN h
  ELSE removeAll(h, parentDom, getDomNodes(instance))

(***************************************************************************)
(* VNodes (elements.ts)                                                    *)
(***************************************************************************)
\* utils isEmptyValue, on the values the builder can hand to the reconciler
isEmptyValue(node) == node = NullVNode
NotEmptyValue(node) == ~isEmptyValue(node)

\* elements.ts createTextElement
createTextElement(value) ==
  [type |-> TEXT_ELEMENT, key |-> NullKey, props |-> [nodeValue |-> value, children |-> <<>>]]

\* elements.ts createElement: key taken out of the props, children added when any
createElement(type, key, rest, rawChildren) ==
  LET children == SelectSeq(rawChildren, NotEmptyValue)
  IN [type |-> type, key |-> key,
      props |-> IF Len(children) > 0 THEN Put(rest, "children", children) ELSE rest]

\* (node.props.children || []).filter((child) => !isEmptyValue(child))
ChildrenOf(node) ==
  IF "children" \in DOMAIN node.props
  THEN SelectSeq(node.props.children, NotEmptyValue)
  ELSE <<>>

\* typeof node.type === "string" (a host tag) / "function" (a component)
IsHostType(type) == type \in HostTags
IsComponentType(type) == type \in ComponentTypes

\* the typeName of createChildPath
TypeName(nodeType) ==
  IF IsHostType(nodeType) THEN nodeType
  ELSE IF IsComponentType(nodeType) THEN nodeType
  ELSE "Symbol(" \o nodeType \o ")"

\* elements.ts createChildPath; index counts from 0 as in the source
createChildPath(parentPath, key, index, nodeType, siblings) ==
  IF key # NullKey THEN parentPath \o "k" \o key
  ELSE LET typeIndex == Cardinality({i \in 1..index : siblings[i].type = nodeType})
       IN parentPath \o ".i" \o ToString(index) \o ".c" \o TypeName(nodeType)
            \o "_" \o ToString(typeIndex)

(***************************************************************************)
(* The schedulers (utils enqueue / withEnqueue, render.ts)                 *)
(***************************************************************************)
\* utils enqueue: the callback becomes a microtask
enqueue(h, task) == [h EXCEPT !.microtasks = Append(@, task)]

\* utils withEnqueue, the call side: absorbed while the flag is set
withEnqueue(h, flag, task) ==
  IF h[flag] THEN h ELSE enqueue([h EXCEPT ![flag] = TRUE], task)

\* utils withEnqueue, the run side: the flag is cleared before fn is invoked
beforeRun(h, flag) == [h EXCEPT ![flag] = FALSE]

\* a scheduler without the pending flag: every request becomes a microtask
enqueueRenderEach(h) ==
  enqueue([h EXCEPT !.requests = @ + 1, !.renderScheduled = TRUE], [kind |-> "render"])
\* render.ts enqueueRender = withEnqueue(render)
enqueueRender(h) ==
  withEnqueue([h EXCEPT !.requests = @ + 1], "renderScheduled", [kind |-> "render"])

\* render.ts flushEffects = withEnqueue(...), the call side
flushEffects(h) == withEnqueue(h, "flushScheduled", [kind |-> "flush"])

(***************************************************************************)
(* The hook store (context.ts) and the hooks (hooks.ts)                    *)
(***************************************************************************)
\* deps of useEffect: undefined, or an array; a hook records deps ?? null
DepsUndefined == [tag |-> "undefined"]
DepsNull == [tag |-> "null"]
DepsArray(items) == [tag |-> "array", items |-> items]

\* Object.is on deps values: two arrays are never the same object, since a
\* component builds its deps array anew in every invocation
ObjectIsDeps(a, b) == a.tag = b.tag /\ a.tag \in {"null", "undefined"}

\* equals.ts shallowCompareArrays
shallowCompareArrays(a, b) ==
  /\ Len(a) = Len(b)
  /\ \A i \in 1..Len(a) : a[i] = b[i]

\* an equality that only looks at the lengths of two deps arrays
shallowEqualsLength(a, b) ==
  a.tag = "array" /\ b.tag = "array" /\ Len(a.items) = Len(b.items)
\* equals.ts shallowEquals, on deps values
shallowEquals(a, b) ==
  IF ObjectIsDeps(a, b) THEN TRUE
  ELSE IF a.tag \in {"null", "undefined"} \/ b.tag \in {"null", "undefined"} THEN FALSE
  ELSE shallowCompareArrays(a.items, b.items)

\* an array index that holds no hook
NoHook == [kind |-> "none"]
\* the hook array a component reads when the store has none for its path
DetachedHooks == [id |-> 0, slots |-> <<>>]

\* what currentPath yields when it throws: no component is executing
NoPath == "<throws>"
\* a currentPath that falls back to the root path on an empty stack
currentPathOrRoot(h) == IF h.componentStack = <<>> THEN "" ELSE Last(h.componentStack)
\* context.hooks.currentPath: throws on an empty stack
currentPath(h) == IF h.componentStack = <<>> THEN NoPath ELSE Last(h.componentStack)
\* the heap after a throw: nothing after the throwing statement has run
Throw(h, message) == [h EXCEPT !.error = message]
\* context.hooks.currentCursor
currentCursor(h) ==
  IF currentPath(h) \in DOMAIN h.cursor THEN h.cursor[currentPath(h)] ELSE 0
\* context.hooks.currentHooks: this.state.get(path) ?? []
currentHooks(h) ==
  IF currentPath(h) \in DOMAIN h.state THEN h.state[currentPath(h)] ELSE DetachedHooks

\* a write through a captured hooks array: it reaches the store only while the
\* store still holds that very array
StoreArray(h, arr, slots) ==
  [p \in DOMAIN h.state |->
     IF h.state[p].id = arr /\ arr # 0 THEN [h.state[p] EXCEPT !.slots = slots] ELSE h.state[p]]
ArrayOf(h, arr) ==
  IF \E p \in DOMAIN h.state : h.state[p].id = arr /\ arr # 0
  THEN (CHOOSE x \in {h.state[p] : p \in DOMAIN h.state} : x.id = arr)
  ELSE DetachedHooks

\* hooks[cursor] = value; cursor counts from 0
WriteSlot(slots, cursor, value) ==
  IF cursor < Len(slots) THEN [slots EXCEPT ![cursor + 1] = value]
  ELSE slots \o [i \in 1..(cursor - Len(slots)) |-> NoHook] \o <<value>>

\* what a state slot reads as
SlotValue(slots, cursor) ==
  IF cursor < Len(slots) /\ slots[cursor + 1].kind = "state"
  THEN slots[cursor + 1].value
  ELSE Undefined

\* hooks.ts useState: returns the heap, the state and the setter closure
useState(h, initialValue, owner) ==
  IF currentPath(h) = NoPath
  THEN [h |-> Throw(h, "hook outside component"), state |-> Undefined,
        setState |-> [path |-> NoPath, cursor |-> 0, state |-> Undefined, arr |-> 0,
                      owner |-> owner]]
  ELSE
  LET path == currentPath(h)
      cursor == currentCursor(h)
      hooks == currentHooks(h)
      slots == IF cursor >= Len(hooks.slots)
               THEN Append(hooks.slots, [kind |-> "state", value |-> initialValue])
               ELSE hooks.slots
      state == SlotValue(slots, cursor)
      setState == [path |-> path, cursor |-> cursor, state |-> state,
                   arr |-> hooks.id, owner |-> owner]
  IN [h |-> [h EXCEPT !.state = StoreArray(h, hooks.id, slots),
                      !.cursor = Put(@, path, cursor + 1),
                      !.setters = @ \cup {setState},
                      !.trace = Append(@, [hook |-> "useState", path |-> path,
                                           cursor |-> cursor, value |-> state])],
      state |-> state, setState |-> setState]

\* the argument of a setter: a value, or the updater prev => prev + add
Value(v) == [fn |-> FALSE, value |-> v]
Updater(add) == [fn |-> TRUE, value |-> add]

\* a setter whose updater receives the value the slot holds at the call
setStateFromSlot(h, setter, nextValue) ==
  LET hooks == ArrayOf(h, setter.arr)
      newValue == IF nextValue.fn
                  THEN SlotValue(hooks.slots, setter.cursor) + nextValue.value
                  ELSE nextValue.value
  IN IF setter.state = newValue THEN h
     ELSE enqueueRender(
            [h EXCEPT !.state = StoreArray(h, setter.arr,
                                   WriteSlot(hooks.slots, setter.cursor,
                                             [kind |-> "state", value |-> newValue]))])
\* hooks.ts useState.setState: the closure body
setState(h, setter, nextValue) ==
  LET newValue == IF nextValue.fn THEN setter.state + nextValue.value ELSE nextValue.value
      hooks == ArrayOf(h, setter.arr)
  IN IF setter.state = newValue THEN h
     ELSE enqueueRender(
            [h EXCEPT !.state = StoreArray(h, setter.arr,
                                   WriteSlot(hooks.slots, setter.cursor,
                                             [kind |-> "state", value |-> newValue]))])

\* hooks.ts useEffect; effect.ret says whether the effect body returns a cleanup
useEffect(h, effect, deps) ==
  IF currentPath(h) = NoPath THEN Throw(h, "hook outside component")
  ELSE
  LET path == currentPath(h)
      cursor == currentCursor(h)
      hooks == currentHooks(h)
      prevHook == IF cursor < Len(hooks.slots) /\ hooks.slots[cursor + 1].kind = "effect"
                  THEN hooks.slots[cursor + 1]
                  ELSE NoHook
      shouldRun == \/ prevHook = NoHook
                   \/ deps = DepsUndefined
                   \/ ~shallowEquals(prevHook.deps, deps)
      id == h.effectCount + 1
      cleanups == IF prevHook # NoHook /\ prevHook.cleanup # 0
                  THEN <<[kind |-> "cleanup", path |-> path, cursor |-> cursor,
                          cleanup |-> prevHook.cleanup]>>
                  ELSE <<>>
      hook == [kind |-> "effect",
               deps |-> IF deps = DepsUndefined THEN DepsNull ELSE deps,
               cleanup |-> 0, effect |-> id]
      pushed == IF shouldRun
                THEN cleanups \o <<[kind |-> "effect", path |-> path, cursor |-> cursor,
                                    effect |-> id, arr |-> hooks.id, ret |-> effect.ret]>>
                ELSE <<>>
      slots == IF shouldRun THEN WriteSlot(hooks.slots, cursor, hook)
               ELSE IF cursor >= Len(hooks.slots) THEN Append(hooks.slots, prevHook)
               ELSE hooks.slots
  IN [h EXCEPT !.state = StoreArray(h, hooks.id, slots),
               !.cursor = Put(@, path, cursor + 1),
               !.queue = @ \o pushed,
               !.effectCount = IF shouldRun THEN id ELSE @,
               !.trace = Append(@, [hook |-> "useEffect", path |-> path, cursor |-> cursor,
                                    deps |-> deps, prev |-> prevHook, pushed |-> pushed,
                                    slot |-> slots[cursor + 1]])]

\* hooks.ts cleanupUnusedHooks
cleanupUnusedHooks(h) ==
  LET pathsToRemove == {path \in DOMAIN h.state : path \notin h.visited}
  IN [h EXCEPT !.state = Drop(@, pathsToRemove),
               !.cursor = Drop(@, pathsToRemove),
               !.visited = {}]

(***************************************************************************)
(* The applications: component functions and the trees they return         *)
(***************************************************************************)
NoProps == EmptyMap
Text(value) == createTextElement(value)
El(tag, rest, children) == createElement(tag, NullKey, rest, children)
Keyed(tag, key, children) == createElement(tag, key, NoProps, children)

\* <Counter/>: one state slot, one effect with the given deps rule
CounterProps(deps, v, bump) == [deps |-> deps, v |-> v, bump |-> bump, ret |-> TRUE]
CounterEl(deps, v, bump) == createElement("Counter", NullKey, CounterProps(deps, v, bump), <<>>)

\* <Wrap/>: two state slots
WrapEl(key) == createElement("Wrap", key, NoProps, <<>>)

\* <Other show/>: one state slot; renders a <p> or nothing
OtherEl(key, show) == createElement("Other", key, [show |-> show], <<>>)

\* the trees <App app=.../> returns, one per value of its state
Scenes(app) ==
  CASE app = "text" ->
         << El("div", NoProps, <<El("span", NoProps, <<Text("1")>>)>>),
            El("div", NoProps, <<El("span", NoProps, <<Text("2")>>)>>) >>
    [] app = "props" ->
         << El("div", [id |-> "a", className |-> "x", onClick |-> "h1",
                       style |-> [color |-> "red"]] @@ ("data-id" :> "1"), <<Text("t")>>),
            El("div", [onClick |-> "h2", style |-> [width |-> "1px"]], <<Text("t")>>),
            El("div", [id |-> "b"], <<Text("t")>>) >>
    [] app = "list" ->
         << El("ul", NoProps, <<El("li", NoProps, <<Text("a")>>),
                                El("li", NoProps, <<Text("b")>>),
                                El("li", NoProps, <<Text("c")>>)>>),
            El("ul", NoProps, <<El("li", NoProps, <<Text("x")>>),
                                El("li", NoProps, <<Text("a")>>),
                                El("li", NoProps, <<Text("b")>>),
                                El("li", NoProps, <<Text("c")>>)>>),
            El("ul", NoProps, <<El("p", NoProps, <<Text("x")>>),
                                El("li", NoProps, <<Text("a")>>)>>),
            El("ul", NoProps, <<Keyed("li", "x", <<Text("x")>>),
                                Keyed("li", "a", <<Text("a")>>)>>),
            El("ul", NoProps, <<Keyed("li", "a", <<Text("a")>>)>>) >>
    [] app = "comps" ->
         << El("div", NoProps, <<CounterEl("n", 0, FALSE), CounterEl("n", 0, FALSE)>>),
            El("div", NoProps, <<El("div", NoProps, <<>>), CounterEl("n", 0, FALSE)>>),
            El("div", NoProps, <<>>) >>
    [] app = "fx" ->
         << El("div", NoProps, <<CounterEl("v", 1, FALSE)>>),
            El("div", NoProps, <<CounterEl("v", 2, FALSE)>>),
            El("div", NoProps, <<CounterEl("none", 0, FALSE)>>) >>
    [] app = "bump" ->
         << El("div", NoProps, <<CounterEl("n", 0, TRUE)>>),
            El("div", NoProps, <<CounterEl("empty", 0, TRUE)>>) >>
    [] app = "gate" ->
         << El("div", NoProps, <<OtherEl(NullKey, FALSE), Text("t")>>),
            El("div", NoProps, <<OtherEl(NullKey, TRUE), Text("t")>>) >>
    [] app = "nest" ->
         << OtherEl(NullKey, TRUE) >>
    [] app = "keyed" ->
         << El("div", NoProps, <<WrapEl("a"), OtherEl("b", TRUE)>>),
            El("div", NoProps, <<OtherEl("b", TRUE), OtherEl("a", TRUE)>>) >>

Apps == {"text", "props", "list", "comps", "fx", "bump", "gate", "keyed", "nest"}
AppEl(app) == createElement("App", NullKey, [app |-> app], <<>>)

\* function App({app}) { const [scene, setScene] = useState(0); return scenes[scene] }
App(h, props) ==
  LET Return(r) ==
        [h |-> r.h,
         child |-> IF r.state + 1 \in DOMAIN Scenes(props.app)
                   THEN Scenes(props.app)[r.state + 1]
                   ELSE NullVNode]
  IN Return(useState(h, 0, "App"))

\* the deps array <Counter/> passes to useEffect
CounterDeps(props, n) ==
  CASE props.deps = "none" -> DepsUndefined
    [] props.deps = "empty" -> DepsArray(<<>>)
    [] props.deps = "n" -> DepsArray(<<n>>)
    [] props.deps = "v" -> DepsArray(<<props.v>>)

\* function Counter({deps, v, bump}) {
\*   const [n, setN] = useState(0);
\*   useEffect(() => cleanup, deps rule);
\*   if (bump && n === 0) setN(1);
\*   return <span>{n}</span> }
Counter(h, props) ==
  LET Return(r, h1) ==
        [h |-> IF props.bump /\ r.state = 0 THEN setState(h1, r.setState, Value(1)) ELSE h1,
         child |-> El("span", NoProps, <<Text(ToString(r.state))>>)]
      Body(r) ==
        Return(r, useEffect(r.h, [ret |-> props.ret], CounterDeps(props, r.state)))
  IN Body(useState(h, 0, "Counter"))

\* function Other({show}) {
\*   const [n, setN] = useState(0);
\*   return show ? <p>{n}</p> : null }
Other(h, props) ==
  LET Return(r) ==
        [h |-> r.h,
         child |-> IF props.show THEN El("p", NoProps, <<Text(ToString(r.state))>>)
                   ELSE NullVNode]
  IN Return(useState(h, 0, "Other"))

\* function Wrap() {
\*   const [a] = useState(1);
\*   const [b] = useState(2);
\*   return <span>{a + b}</span> }
Wrapper(h, props) ==
  LET Return(r2, a) ==
        [h |-> r2.h, child |-> El("span", NoProps, <<Text(ToString(a + r2.state))>>)]
      Second(r1) == Return(useState(r1.h, 2, "Wrap"), r1.state)
  IN Second(useState(h, 1, "Wrap"))

\* Component(node.props)
Component(h, type, props) ==
  CASE type = "App" -> App(h, props)
    [] type = "Counter" -> Counter(h, props)
    [] type = "Other" -> Other(h, props)
    [] type = "Wrap" -> Wrapper(h, props)

(***************************************************************************)
(* The reconciler (reconciler.ts)                                          *)
(***************************************************************************)
RECURSIVE reconcile(_, _, _, _, _)
RECURSIVE mount(_, _, _, _)
RECURSIVE mountChildren(_, _, _, _, _, _)
RECURSIVE reconcileChildrenLoop(_, _, _, _, _, _, _)
RECURSIVE reconcileChildren(_, _, _, _, _)
RECURSIVE mountComponent(_, _, _, _)
RECURSIVE updateComponent(_, _, _, _, _)

NewInstance(h, kind, dom, node, path) ==
  [id |-> h.instCount + 1, kind |-> kind, dom |-> dom, node |-> node,
   children |-> <<>>, key |-> node.key, path |-> path]
CountInstance(h) == [h EXCEPT !.instCount = @ + 1]

\* a TEXT branch that assigns nodeValue without comparing
updateTextAlways(h, textNode, newValue) ==
  IF textNode # NoDom
  THEN LogOp([h EXCEPT !.dom[textNode].nodeValue = newValue], "setText", textNode, NoDom)
  ELSE h
\* the TEXT branch of reconcile: textNode.nodeValue = newValue when it differs
updateText(h, textNode, newValue) ==
  IF textNode # NoDom /\ h.dom[textNode].nodeValue # newValue
  THEN LogOp([h EXCEPT !.dom[textNode].nodeValue = newValue], "setText", textNode, NoDom)
  ELSE h

\* the HOST branch of reconcile: updateDomProps(dom, instance.node.props, node.props)
updateHost(h, dom, instanceProps, nodeProps) ==
  IF dom # NoDom
  THEN [h EXCEPT !.dom[dom] = updateDomProps(@, instanceProps, nodeProps)]
  ELSE h

\* the instance after instance.node = node; instance.path = path
Updated(instance, node, path) == [instance EXCEPT !.node = node, !.path = path]

\* a reconcile that mounts over a mismatching instance without unmounting it
reconcileOver(h, parentDom, instance, node, path) ==
  IF node = NullVNode
  THEN [h |-> IF instance # NoInstance THEN removeInstance(h, parentDom, instance) ELSE h,
        inst |-> NoInstance]
  ELSE IF instance = NoInstance \/ instance.node.type # node.type \/ instance.key # node.key
  THEN mount(h, parentDom, node, path)
  ELSE IF node.type = TEXT_ELEMENT
  THEN [h |-> updateText(h, instance.dom, node.props.nodeValue),
        inst |-> Updated(instance, node, path)]
  ELSE IF IsHostType(node.type) \/ node.type = Fragment
  THEN reconcileChildren(
         IF IsHostType(node.type)
         THEN updateHost(h, instance.dom, Updated(instance, node, path).node.props, node.props)
         ELSE h,
         IF IsHostType(node.type) THEN instance.dom ELSE parentDom,
         Updated(instance, node, path), node, path)
  ELSE IF IsComponentType(node.type)
  THEN updateComponent(h, parentDom, Updated(instance, node, path), node, path)
  ELSE [h |-> h, inst |-> Updated(instance, node, path)]
\* reconciler.ts reconcile: returns the heap and the instance
reconcile(h, parentDom, instance, node, path) ==
  IF node = NullVNode
  THEN [h |-> IF instance # NoInstance THEN removeInstance(h, parentDom, instance) ELSE h,
        inst |-> NoInstance]
  ELSE IF instance = NoInstance \/ instance.node.type # node.type \/ instance.key # node.key
  THEN mount(IF instance = NoInstance THEN h ELSE removeInstance(h, parentDom, instance),
             parentDom, node, path)
  ELSE IF node.type = TEXT_ELEMENT
  THEN [h |-> updateText(h, instance.dom, node.props.nodeValue),
        inst |-> Updated(instance, node, path)]
  ELSE IF IsHostType(node.type) \/ node.type = Fragment
  THEN reconcileChildren(
         IF IsHostType(node.type)
         THEN updateHost(h, instance.dom, Updated(instance, node, path).node.props, node.props)
         ELSE h,
         IF IsHostType(node.type) THEN instance.dom ELSE parentDom,
         Updated(instance, node, path), node, path)
  ELSE IF IsComponentType(node.type)
  THEN updateComponent(h, parentDom, Updated(instance, node, path), node, path)
  ELSE [h |-> h, inst |-> Updated(instance, node, path)]

\* the element of mount's HOST branch: created, its props set
createHost(h, node) ==
  [documentCreateElement(h, node.type) EXCEPT !.dom[NewId(h)] = setDomProps(@, node.props)]

\* reconciler.ts mount
mount(h, parentDom, node, path) ==
  IF node.type = TEXT_ELEMENT
  THEN LET Insert(h1, instance) ==
             [h |-> insertInstance(CountInstance(h1), parentDom, instance, NoDom),
              inst |-> instance]
       IN Insert(documentCreateTextNode(h, node.props.nodeValue),
                 NewInstance(h, TEXT, NewId(h), node, path))
  ELSE IF IsHostType(node.type) \/ node.type = Fragment
  THEN LET host == IsHostType(node.type)
           instance == NewInstance(h, IF host THEN HOST ELSE FRAGMENT,
                                   IF host THEN NewId(h) ELSE NoDom, node, path)
           Mounted(r, mounted) ==
             [h |-> IF host THEN insertInstance(r.h, parentDom, mounted, NoDom) ELSE r.h,
              inst |-> mounted]
           Insert(r) == Mounted(r, [instance EXCEPT !.children = r.insts])
       IN Insert(mountChildren(CountInstance(IF host THEN createHost(h, node) ELSE h),
                               IF host THEN NewId(h) ELSE parentDom,
                               ChildrenOf(node), 1, path, <<>>))
  ELSE IF IsComponentType(node.type) THEN mountComponent(h, parentDom, node, path)
  ELSE [h |-> h, inst |-> NoInstance]

\* the children.map of mount; i counts from 1
mountChildren(h, parentDom, children, i, path, acc) ==
  IF i > Len(children) THEN [h |-> h, insts |-> acc]
  ELSE LET Rest(r) == mountChildren(r.h, parentDom, children, i + 1, path, Append(acc, r.inst))
       IN Rest(reconcile(h, parentDom, NoInstance, children[i],
                         createChildPath(path, children[i].key, i - 1,
                                         children[i].type, children)))

\* the lines of reconcileChildren after reconcile: a fresh child is put before
\* nextSibling when its first host node is not yet under parentDom
placeChild(h, parentDom, prevChild, childInstance, nextSibling) ==
  IF /\ childInstance # NoInstance
     /\ prevChild = NoInstance
     /\ nextSibling # NoDom
     /\ getFirstDom(childInstance) # NoDom
     /\ h.dom[getFirstDom(childInstance)].parentNode # parentDom
  THEN insertInstance(h, parentDom, childInstance, nextSibling)
  ELSE h

\* a for loop that looks a keyed new child up among the old children by its key
reconcileChildrenLoopByKey(h, parentDom, prevChildren, nextChildren, i, path, newChildren) ==
  IF i > Max(Len(prevChildren), Len(nextChildren)) THEN [h |-> h, insts |-> newChildren]
  ELSE
    LET nextChild == IF i <= Len(nextChildren) THEN nextChildren[i] ELSE NullVNode
        sameKey == {j \in DOMAIN prevChildren :
                      /\ nextChild # NullVNode
                      /\ nextChild.key # NullKey
                      /\ prevChildren[j] # NoInstance
                      /\ prevChildren[j].key = nextChild.key}
        prevChild == IF sameKey # {} THEN prevChildren[CHOOSE j \in sameKey : TRUE]
                     ELSE IF i <= Len(prevChildren) THEN prevChildren[i] ELSE NoInstance
        Rest(r) ==
          reconcileChildrenLoop(r.h, parentDom, prevChildren, nextChildren, i + 1, path,
                                Append(newChildren, r.inst))
    IN IF nextChild = NullVNode
       THEN reconcileChildrenLoop(
              IF prevChild # NoInstance THEN removeInstance(h, parentDom, prevChild) ELSE h,
              parentDom, prevChildren, nextChildren, i + 1, path,
              Append(newChildren, NoInstance))
       ELSE Rest(reconcile(h, parentDom, prevChild, nextChild,
                           createChildPath(path, nextChild.key, i - 1, nextChild.type,
                                           nextChildren)))
\* the for loop of reconcileChildren; i counts from 1
reconcileChildrenLoop(h, parentDom, prevChildren, nextChildren, i, path, newChildren) ==
  IF i > Max(Len(prevChildren), Len(nextChildren)) THEN [h |-> h, insts |-> newChildren]
  ELSE
    LET prevChild == IF i <= Len(prevChildren) THEN prevChildren[i] ELSE NoInstance
        nextChild == IF i <= Len(nextChildren) THEN nextChildren[i] ELSE NullVNode
        nextSibling == getFirstDomFromChildren(SubSeq(prevChildren, i + 1, Len(prevChildren)))
        Rest(r) ==
          reconcileChildrenLoop(placeChild(r.h, parentDom, prevChild, r.inst, nextSibling),
                                parentDom, prevChildren, nextChildren, i + 1, path,
                                Append(newChildren, r.inst))
    IN IF nextChild = NullVNode \/ isEmptyValue(nextChild)
       THEN reconcileChildrenLoop(
              IF prevChild # NoInstance THEN removeInstance(h, parentDom, prevChild) ELSE h,
              parentDom, prevChildren, nextChildren, i + 1, path,
              Append(newChildren, NoInstance))
       ELSE Rest(reconcile(h, parentDom, prevChild, nextChild,
                           createChildPath(path, nextChild.key, i - 1, nextChild.type,
                                           nextChildren)))

\* reconciler.ts reconcileChildren: the instance with its new children
reconcileChildren(h, parentDom, instance, node, path) ==
  LET Return(r) == [h |-> r.h, inst |-> [instance EXCEPT !.children = r.insts]]
  IN Return(reconcileChildrenLoop(h, parentDom, instance.children, ChildrenOf(node),
                                  1, path, <<>>))

\* a component function is entered: the hook trace records its cursor
Enter(h, path, type) ==
  [h EXCEPT !.trace = Append(@, [hook |-> "enter", path |-> path, type |-> type,
                                 cursor |-> IF path \in DOMAIN h.cursor
                                            THEN h.cursor[path] ELSE 0])]
\* context.hooks.componentStack.pop()
Pop(h) == [h EXCEPT !.componentStack = SubSeq(@, 1, Len(@) - 1)]

\* the head of mountComponent: stack, visited set, slot list and cursor of the path
enterMount(h, path) ==
  [h EXCEPT !.componentStack = Append(@, path),
            !.visited = @ \cup {path},
            !.state = IF path \in DOMAIN @ THEN @
                      ELSE Put(@, path, [id |-> h.arrCount + 1, slots |-> <<>>]),
            !.arrCount = IF path \in DOMAIN h.state THEN @ ELSE @ + 1,
            !.cursor = IF path \in DOMAIN @ THEN @ ELSE Put(@, path, 0)]

\* reconciler.ts mountComponent
mountComponent(h, parentDom, node, path) ==
  LET Wrap(instance, r) == [h |-> Pop(r.h), inst |-> [instance EXCEPT !.children = <<r.inst>>]]
      Body(c) ==
        IF c.child # NullVNode /\ ~isEmptyValue(c.child)
        THEN Wrap(NewInstance(c.h, COMPONENT, NoDom, node, path),
                  reconcile(CountInstance(c.h), parentDom, NoInstance, c.child, path))
        ELSE [h |-> Pop(CountInstance(c.h)),
              inst |-> NewInstance(c.h, COMPONENT, NoDom, node, path)]
  IN Body(Component(Enter(enterMount(h, path), path, node.type), node.type, node.props))

\* the head of updateComponent: stack, visited set, cursor reset
enterUpdate(h, path) ==
  [h EXCEPT !.componentStack = Append(@, path),
            !.visited = @ \cup {path},
            !.cursor = Put(@, path, 0)]

\* reconciler.ts updateComponent
updateComponent(h, parentDom, instance, node, path) ==
  LET prevChild == IF Len(instance.children) >= 1 THEN instance.children[1] ELSE NoInstance
      Finish(r) ==
        [h |-> Pop(IF r.inst = NoInstance /\ prevChild # NoInstance
                   THEN removeInstance(r.h, parentDom, prevChild)
                   ELSE r.h),
         inst |-> [Updated(instance, node, path) EXCEPT !.children = <<r.inst>>]]
      Body(c) ==
        IF c.child # NullVNode /\ ~isEmptyValue(c.child)
        THEN Finish(reconcile(c.h, parentDom, prevChild, c.child, path))
        ELSE Finish([h |-> c.h, inst |-> NoInstance])
  IN Body(Component(Enter(enterUpdate(h, path), path, node.type), node.type, node.props))

(***************************************************************************)
(* render.ts and setup.ts                                                  *)
(***************************************************************************)
\* the head of render: visited and stack cleared; the logs of the pass start
beginRender(h) ==
  [h EXCEPT !.visited = {}, !.componentStack = <<>>,
            !.passes = @ + 1, !.trace = <<>>, !.domOps = <<>>, !.setters = {}]

\* the middle of render: context.root.instance = reconcile(container, instance, node, "")
reconcileRoot(h) ==
  LET Store(r) == [r.h EXCEPT !.rootInstance = r.inst]
  IN IF h.rootContainer # NoDom /\ h.rootNode # NullVNode
     THEN Store(reconcile(h, h.rootContainer, h.rootInstance, h.rootNode, ""))
     ELSE h

\* a cleanup or an effect body executes: the log of executions
\* (arr: the hooks array an effect body captured; ret: it returned a cleanup;
\* mark: the effects that had been created when the root was last set up)
Executed(h, kind, id, item, arr, ret) ==
  [h EXCEPT !.execLog = Append(@, [kind |-> kind, id |-> id, path |-> item.path,
                                   cursor |-> item.cursor, pass |-> h.passes,
                                   arr |-> arr, ret |-> ret, mark |-> h.rootMark])]

RECURSIVE flushLoop(_)
\* render.ts flushEffects, the wrapped function: the while loop over the queue
flushLoop(h) ==
  IF h.queue = <<>> THEN h
  ELSE IF Head(h.queue).kind = "cleanup"
  THEN flushLoop(Executed([h EXCEPT !.queue = Tail(@)], "cleanup",
                          Head(h.queue).cleanup, Head(h.queue), 0, FALSE))
  ELSE flushLoop(enqueue([h EXCEPT !.queue = Tail(@)], Head(h.queue)))

\* a render that drains the effect queue itself, before it returns
renderAndFlush(h) == flushLoop(cleanupUnusedHooks(reconcileRoot(beginRender(h))))
\* render.ts render
render(h) == flushEffects(cleanupUnusedHooks(reconcileRoot(beginRender(h))))

\* currentHook.cleanup = cleanup, through the hooks array the effect captured
storeCleanup(h, item, hooks) ==
  IF /\ item.ret
     /\ item.cursor < Len(hooks.slots)
     /\ hooks.slots[item.cursor + 1].kind = "effect"
  THEN [h EXCEPT !.state =
          StoreArray(h, item.arr,
                     [hooks.slots EXCEPT ![item.cursor + 1].cleanup = item.effect])]
  ELSE h

\* the callback useEffect queues: () => { const cleanup = effect(); ... }
runEffect(h, item) ==
  storeCleanup(Executed(h, "effect", item.effect, item, item.arr, item.ret),
               item, ArrayOf(h, item.arr))

\* container.innerHTML = ""
clearContainer(h, container) ==
  [h EXCEPT !.dom =
     [n \in DOMAIN h.dom |->
        IF n = container THEN [h.dom[n] EXCEPT !.childNodes = <<>>]
        ELSE IF n \in Range(h.dom[container].childNodes)
             THEN [h.dom[n] EXCEPT !.parentNode = NoDom]
        ELSE h.dom[n]]]

\* context.root.reset({container, node})
rootReset(h, container, node) ==
  [h EXCEPT !.rootContainer = container, !.rootNode = node, !.rootInstance = NoInstance,
            !.rootMark = h.effectCount]

\* context.hooks.clear()
hooksClear(h) ==
  [h EXCEPT !.state = EmptyMap, !.cursor = EmptyMap, !.visited = {}, !.componentStack = <<>>]

\* a setup that clears the previous rendering before it looks at the root node
setupClearFirst(h, rootNode, container) ==
  IF container = NoDom THEN [h EXCEPT !.error = "no container"]
  ELSE IF rootNode = NullVNode
  THEN [clearContainer(IF h.rootInstance # NoInstance
                       THEN removeInstance(h, container, h.rootInstance)
                       ELSE h,
                       container) EXCEPT !.error = "null root"]
  ELSE render(hooksClear(rootReset(
         clearContainer(IF h.rootInstance # NoInstance
                        THEN removeInstance(h, container, h.rootInstance)
                        ELSE h,
                        container),
         container, rootNode)))
\* setup.ts setup
setup(h, rootNode, container) ==
  IF container = NoDom THEN [h EXCEPT !.error = "no container"]
  ELSE IF rootNode = NullVNode THEN [h EXCEPT !.error = "null root"]
  ELSE render(hooksClear(rootReset(
         clearContainer(IF h.rootInstance # NoInstance
                        THEN removeInstance(h, container, h.rootInstance)
                        ELSE h,
                        container),
         container, rootNode)))

(***************************************************************************)
(* State                                                                   *)
(***************************************************************************)
VARIABLES
  rootContainer, rootNode, rootInstance,      \* context.root
  state, cursor, visited, componentStack,     \* context.hooks
  queue,                                      \* context.effects.queue
  dom,                                        \* the page: host nodes by number
  renderScheduled, flushScheduled,            \* the flags of the two withEnqueue gates
  microtasks,                                 \* the microtask queue of the event loop
  instCount, arrCount, effectCount,           \* objects created so far (identity)
  rootMark,                                   \* effects created before the last setup
  setters,                                    \* the setter closures of the last pass
  passes,                                     \* calls of render so far
  calls,                                      \* user calls in the open synchronous window
  setups,                                     \* successful calls of setup so far
  requests,                                   \* enqueueRender calls the pending render microtask serves
  trace,                                      \* hook calls of the last pass
  domOps,                                     \* host mutations of the last pass
  execLog,                                    \* effect bodies and cleanups executed
  error,                                      \* the error the last call threw, or ""
  lastOp                                      \* the last operation and its arguments

heapVars == <<rootContainer, rootNode, rootInstance, state, cursor, visited,
              componentStack, queue, dom, renderScheduled, flushScheduled, microtasks,
              instCount, arrCount, effectCount, rootMark, setters, passes, requests,
              trace, domOps, execLog, error>>
vars == <<heapVars, calls, setups, lastOp>>

\* the current state as a heap, with no error pending
Heap ==
  [rootContainer |-> rootContainer, rootNode |-> rootNode, rootInstance |-> rootInstance,
   state |-> state, cursor |-> cursor, visited |-> visited,
   componentStack |-> componentStack, queue |-> queue, dom |-> dom,
   renderScheduled |-> renderScheduled, flushScheduled |-> flushScheduled,
   microtasks |-> microtasks, instCount |-> instCount, arrCount |-> arrCount,
   effectCount |-> effectCount, rootMark |-> rootMark, setters |-> setters,
   passes |-> passes,
   requests |-> requests, trace |-> trace, domOps |-> domOps, execLog |-> execLog,
   error |-> ""]

\* the heap a handler leaves becomes the next state
Commit(h) ==
  /\ rootContainer' = h.rootContainer
  /\ rootNode' = h.rootNode
  /\ rootInstance' = h.rootInstance
  /\ state' = h.state
  /\ cursor' = h.cursor
  /\ visited' = h.visited
  /\ componentStack' = h.componentStack
  /\ queue' = h.queue
  /\ dom' = h.dom
  /\ renderScheduled' = h.renderScheduled
  /\ flushScheduled' = h.flushScheduled
  /\ microtasks' = h.microtasks
  /\ instCount' = h.instCount
  /\ arrCount' = h.arrCount
  /\ effectCount' = h.effectCount
  /\ rootMark' = h.rootMark
  /\ setters' = h.setters
  /\ passes' = h.passes
  /\ requests' = h.requests
  /\ trace' = h.trace
  /\ domOps' = h.domOps
  /\ execLog' = h.execLog
  /\ error' = h.error

Init ==
  /\ rootContainer = NoDom
  /\ rootNode = NullVNode
  /\ rootInstance = NoInstance
  /\ state = EmptyMap
  /\ cursor = EmptyMap
  /\ visited = {}
  /\ componentStack = <<>>
  /\ queue = <<>>
  /\ dom = <<NewNode("body", "")>>
  /\ renderScheduled = FALSE
  /\ flushScheduled = FALSE
  /\ microtasks = <<>>
  /\ instCount = 0
  /\ arrCount = 0
  /\ effectCount = 0
  /\ rootMark = 0
  /\ setters = {}
  /\ passes = 0
  /\ calls = 0
  /\ setups = 0
  /\ requests = 0
  /\ trace = <<>>
  /\ domOps = <<>>
  /\ execLog = <<>>
  /\ error = ""
  /\ lastOp = [op |-> "init"]

(***************************************************************************)
(* The event loop: a synchronous window of user calls (a script or an      *)
(* event handler), then the microtasks in order until none is left.        *)
(***************************************************************************)
\* a user call may start a window when no microtask is pending, or continue one
InWindow == (calls > 0 \/ microtasks = <<>>) /\ calls < MaxCalls /\ passes < MaxPasses

\* the values a handler passes to a setter of the given component; <Wrap/>
\* hands its setters to nobody
SetterArgs(setter) ==
  IF setter.owner = "App"
  THEN {Value(v) : v \in 0..(Len(Scenes(rootNode.props.app)) - 1)}
  ELSE IF setter.owner = "Wrap" THEN {}
  ELSE IF setter.owner = "Other" THEN {Value(1)}
  ELSE {Value(0), Value(1), Updater(1)}

\* the arguments user code passes to setup: every application with the
\* container, and the three ways of passing a missing argument; a behaviour
\* follows one application, which user code may set up again
SetupArgs ==
  {[node |-> AppEl(app), container |-> Container] : app \in Apps}
    \cup {[node |-> NullVNode, container |-> Container],
          [node |-> AppEl("text"), container |-> NoDom],
          [node |-> NullVNode, container |-> NoDom]}

\* user code calls setup(rootNode, container)
Setup ==
  /\ InWindow
  /\ \E args \in SetupArgs :
       LET valid == args.node # NullVNode /\ args.container # NoDom
       IN /\ valid => setups < MaxSetups /\ (rootNode = NullVNode \/ args.node = rootNode)
          /\ Commit(setup(Heap, args.node, args.container))
          /\ lastOp' = [op |-> "setup", node |-> args.node, container |-> args.container]
          /\ setups' = IF valid THEN setups + 1 ELSE setups
  /\ calls' = calls + 1

\* user code calls a state setter handed out in the last pass
SetState ==
  /\ InWindow
  /\ \E setter \in setters :
       \E arg \in SetterArgs(setter) :
         /\ Commit(setState(Heap, setter, arg))
         /\ lastOp' = [op |-> "setState", setter |-> setter, arg |-> arg]
  /\ calls' = calls + 1
  /\ UNCHANGED setups

\* user code calls a hook while no component is executing
CallHook ==
  /\ InWindow
  /\ \E hook \in {"useState", "useEffect"} :
       /\ Commit(IF hook = "useState" THEN useState(Heap, 0, "App").h
                 ELSE useEffect(Heap, [ret |-> TRUE], DepsUndefined))
       /\ lastOp' = [op |-> "hook", hook |-> hook]
  /\ calls' = calls + 1
  /\ UNCHANGED setups

\* user code calls enqueueRender()
RequestRender ==
  /\ InWindow
  /\ Commit(enqueueRender(Heap))
  /\ lastOp' = [op |-> "enqueueRender"]
  /\ calls' = calls + 1
  /\ UNCHANGED setups

\* the window ends with no microtask pending
Idle ==
  /\ calls > 0
  /\ microtasks = <<>>
  /\ calls' = 0
  /\ UNCHANGED setups
  /\ lastOp' = [op |-> "idle"]
  /\ Commit(Heap)

\* the heap at the start of a microtask: the head is taken off the queue
Tick == [Heap EXCEPT !.microtasks = Tail(@)]

\* the microtask of enqueueRender runs: one render pass
RunRender ==
  /\ microtasks # <<>>
  /\ Head(microtasks).kind = "render"
  /\ Commit(render(beforeRun([Tick EXCEPT !.requests = 0], "renderScheduled")))
  /\ calls' = 0
  /\ UNCHANGED setups
  /\ lastOp' = [op |-> "render", requests |-> requests]

\* the microtask of flushEffects runs: the queue is drained
RunFlush ==
  /\ microtasks # <<>>
  /\ Head(microtasks).kind = "flush"
  /\ Commit(flushLoop(beforeRun(Tick, "flushScheduled")))
  /\ calls' = 0
  /\ UNCHANGED setups
  /\ lastOp' = [op |-> "flush"]

\* the microtask of one queued effect runs: the effect body executes
RunEffect ==
  /\ microtasks # <<>>
  /\ Head(microtasks).kind = "effect"
  /\ Commit(runEffect(Tick, Head(microtasks)))
  /\ calls' = 0
  /\ UNCHANGED setups
  /\ lastOp' = [op |-> "effect", item |-> Head(microtasks)]

Next == Setup \/ SetState \/ CallHook \/ RequestRender \/ Idle \/ RunRender \/ RunFlush \/ RunEffect

Spec == Init /\ [][Next]_vars

(***************************************************************************)
(* Render scheduling                                                       *)
(***************************************************************************)
\* the render microtasks pending in a microtask queue
RenderTasks(tasks) == Cardinality({i \in DOMAIN tasks : tasks[i].kind = "render"})

\* C1: any number n >= 1 of enqueueRender calls made in one synchronous
\* window results in exactly one render pass, in a later microtask: exactly
\* one render microtask is pending while requests are outstanding and none
\* otherwise, no setter call runs a pass synchronously, and the microtask,
\* when the event loop reaches it, runs exactly one pass for all of them.
EnqueueRenderCoalesces ==
  [][/\ RenderTasks(microtasks') <= 1
     /\ requests' >= 1 <=> RenderTasks(microtasks') = 1
     /\ requests' >= 1 <=> renderScheduled'
     /\ lastOp'.op = "setState" => passes' = passes
     /\ lastOp'.op = "render" =>
          /\ passes' = passes + 1
          /\ lastOp'.requests >= 1
          /\ Head(microtasks).kind = "render"
          /\ RenderTasks(microtasks) = 1]_vars

\* two setter calls of one window were served by one pass
TwoRequestsOnePass == lastOp.op = "render" /\ lastOp.requests >= 2

(***************************************************************************)
(* State setters                                                           *)
(***************************************************************************)
\* the value the slot of a setter holds in a hook store
LiveSlot(st, setter) == SlotValue(ArrayOf([state |-> st], setter.arr).slots, setter.cursor)
\* the setter's hook array is still the one the store holds for its path
IsLive(st, setter) == ArrayOf([state |-> st], setter.arr) # DetachedHooks
\* the value a setter call asks for
Requested(setter, arg) == IF arg.fn THEN setter.state + arg.value ELSE arg.value

\* C2: a setter call with a value Object.is-equal to the slot's current value
\* leaves the slot unchanged and requests no render pass; a call with a
\* different value writes the slot and requests a pass; this holds for every
\* call, a second call from the same handler included.
SetterComparesCurrentValue ==
  [][lastOp'.op = "setState" /\ IsLive(state, lastOp'.setter) =>
       IF Requested(lastOp'.setter, lastOp'.arg) = LiveSlot(state, lastOp'.setter)
       THEN state' = state /\ requests' = requests
       ELSE /\ LiveSlot(state', lastOp'.setter) = Requested(lastOp'.setter, lastOp'.arg)
            /\ requests' = requests + 1]_vars

\* a setter was called after an earlier call of the same handler changed its slot
SecondCallSeesChangedSlot ==
  /\ lastOp.op = "setState"
  /\ calls = 2
  /\ IsLive(state, lastOp.setter)
  /\ LiveSlot(state, lastOp.setter) # lastOp.setter.state

(***************************************************************************)
(* Effects                                                                 *)
(***************************************************************************)
\* two deps values are arrays with pairwise Object.is-equal items
SameDeps(a, b) == a.tag = "array" /\ b.tag = "array" /\ a.items = b.items
\* the kinds of the queue entries a hook call pushed, in order
Kinds(pushed) == [j \in DOMAIN pushed |-> pushed[j].kind]

\* C3: for an effect slot recorded in an earlier pass, a call of useEffect
\* with deps shallow-equal to the recorded ones pushes nothing on the effect
\* queue and leaves the slot record unchanged; a call with differing or
\* undefined deps pushes the stored cleanup, if there is one, and then the
\* new effect body, each exactly once and in that order.
EffectDepsGate ==
  \A i \in DOMAIN trace :
    (trace[i].hook = "useEffect" /\ trace[i].prev # NoHook) =>
      IF SameDeps(trace[i].prev.deps, trace[i].deps)
      THEN trace[i].pushed = <<>> /\ trace[i].slot = trace[i].prev
      ELSE /\ Kinds(trace[i].pushed) =
                (IF trace[i].prev.cleanup # 0 THEN <<"cleanup", "effect">> ELSE <<"effect">>)
           /\ trace[i].prev.cleanup # 0 => trace[i].pushed[1].cleanup = trace[i].prev.cleanup
           /\ Last(trace[i].pushed).effect = trace[i].slot.effect
           /\ trace[i].slot.effect # trace[i].prev.effect
           /\ \A j \in DOMAIN trace[i].pushed :
                /\ trace[i].pushed[j].path = trace[i].path
                /\ trace[i].pushed[j].cursor = trace[i].cursor

\* one pass re-ran an effect with its stored cleanup pushed first, and gated another
OneEffectRerunOneGated ==
  /\ \E i \in DOMAIN trace :
       /\ trace[i].hook = "useEffect"
       /\ trace[i].prev # NoHook
       /\ Kinds(trace[i].pushed) = <<"cleanup", "effect">>
  /\ \E i \in DOMAIN trace :
       /\ trace[i].hook = "useEffect"
       /\ trace[i].prev # NoHook
       /\ trace[i].prev.cleanup # 0
       /\ trace[i].pushed = <<>>

\* two executions of effect bodies of one slot of a component that stayed
\* mounted (the same hooks array), with no execution of that slot in between
NextEffectOfSlot(i, j) ==
  /\ i < j
  /\ execLog[i].kind = "effect" /\ execLog[j].kind = "effect"
  /\ execLog[i].path = execLog[j].path /\ execLog[i].cursor = execLog[j].cursor
  /\ execLog[i].arr = execLog[j].arr /\ execLog[i].arr # 0
  /\ \A m \in (i + 1)..(j - 1) :
       ~(/\ execLog[m].kind = "effect"
         /\ execLog[m].path = execLog[i].path
         /\ execLog[m].cursor = execLog[i].cursor)

\* C4: on every schedule of passes and flushes, the cleanup an effect body of
\* a slot returned is executed before the next effect body of the same slot
\* executes, while the component stays mounted.
CleanupBeforeNextEffect ==
  \A i, j \in DOMAIN execLog :
    (NextEffectOfSlot(i, j) /\ execLog[i].ret) =>
      \E k \in (i + 1)..(j - 1) :
        execLog[k].kind = "cleanup" /\ execLog[k].id = execLog[i].id

\* the next effect body of a slot ran after the cleanup of the previous one
CleanupThenEffect ==
  \E i, j \in DOMAIN execLog :
    /\ NextEffectOfSlot(i, j)
    /\ \E k \in (i + 1)..(j - 1) :
         execLog[k].kind = "cleanup" /\ execLog[k].id = execLog[i].id

(***************************************************************************)
(* The hook store                                                          *)
(***************************************************************************)
\* the identity paths entered as a component during the last pass
Entered == {trace[i].path : i \in {k \in DOMAIN trace : trace[k].hook = "enter"}}

\* C5: after every completed render pass the hook store holds neither a slot
\* list nor a cursor entry for a path that was not entered as a component
\* during that pass (so that a component mounted again at the path later
\* starts from its initial state).
HookStoreHoldsOnlyEnteredPaths == (DOMAIN state \cup DOMAIN cursor) \subseteq Entered

\* a pass discarded the slot list and the cursor of a component no longer rendered
UnmountedSlotsDiscarded ==
  /\ lastOp.op = "render"
  /\ ".i0.cCounter_0" \notin Entered
  /\ ".i0.cCounter_0" \notin DOMAIN state \cup DOMAIN cursor
  /\ \E i \in DOMAIN execLog : execLog[i].path = ".i0.cCounter_0"

(***************************************************************************)
(* Host nodes                                                              *)
(***************************************************************************)
RECURSIVE InstancesOf(_)
\* the instances of an instance tree
InstancesOf(inst) ==
  IF inst = NoInstance THEN {}
  ELSE {inst} \cup UNION {InstancesOf(inst.children[i]) : i \in DOMAIN inst.children}

\* the host node n carries exactly the props p
CarriesExactly(n, p) ==
  /\ n.listeners = {<<EventName(k), p[k]>> : k \in {e \in DOMAIN p : IsEventProp(e, p)}}
  /\ n.className = (IF "className" \in DOMAIN p THEN p.className ELSE "")
  /\ \A s \in StyleKeys :
       n.style[s] = (IF "style" \in DOMAIN p /\ s \in DOMAIN p.style THEN p.style[s] ELSE "")
  /\ DOMAIN n.attrs = {k \in DOMAIN p : IsDataProp(k)}
  /\ \A k \in DOMAIN n.attrs : n.attrs[k] = p[k]
  /\ \A k \in DOMAIN n.fields :
       n.fields[k] = (IF k \in DOMAIN p THEN p[k] ELSE UndefinedProp)
  /\ \A k \in DOMAIN p : IsGenericProp(k, p) => k \in DOMAIN n.fields

\* C6: after a HOST instance is updated in place, every prop the previous
\* VNode had and the new one lacks is cleared on the host node and all props
\* of the new VNode are applied: the node carries exactly the new VNode's
\* props and only the new event handlers.
HostCarriesNewProps ==
  \A inst \in InstancesOf(rootInstance) :
    inst.kind = HOST => CarriesExactly(dom[inst.dom], inst.node.props)

\* a pass updated the host node of the props application in place
HostUpdatedInPlace ==
  /\ lastOp.op = "render"
  /\ rootNode # NullVNode
  /\ rootNode.props.app = "props"
  /\ \E inst \in InstancesOf(rootInstance) :
       /\ inst.kind = HOST
       /\ inst.node.props # Scenes("props")[1].props
       /\ \A i \in DOMAIN domOps : domOps[i].node # inst.dom

\* C7: a child mounted afresh at index i is placed before the first host node
\* of the following old sibling, and appended only when there is none: after
\* the pass the host order of a parent's children equals the order of the
\* new child list.
HostOrderFollowsChildList ==
  \A inst \in InstancesOf(rootInstance) :
    inst.kind = HOST => dom[inst.dom].childNodes = getDomNodesOfAll(inst.children)

\* a pass mounted a fresh first child while the old second child stayed
FreshChildBeforeOldSibling ==
  /\ lastOp.op = "render"
  /\ \E inst \in InstancesOf(rootInstance) :
       /\ inst.kind = HOST
       /\ Len(inst.children) >= 2
       /\ inst.children[1] # NoInstance /\ inst.children[2] # NoInstance
       /\ \E i \in DOMAIN domOps :
            domOps[i].op = "create" /\ domOps[i].node = inst.children[1].dom
       /\ \A i \in DOMAIN domOps : domOps[i].node # inst.children[2].dom

\* the host mutations of the last pass that touch the host node d
OpsOn(ops, d) == {i \in DOMAIN ops : ops[i].node = d}

\* C8: a pass that updates a TEXT instance whose new nodeValue differs from
\* the committed one changes the value of the existing text node in place:
\* the same node stays where it is, nothing is created, inserted or removed
\* for it, and exactly one text mutation happens; with an equal value no
\* mutation happens at all.
TextUpdatedInPlace ==
  [][lastOp'.op = "render" =>
       \A old \in InstancesOf(rootInstance) :
         \A new \in InstancesOf(rootInstance') :
           (old.kind = TEXT /\ new.id = old.id) =>
             /\ new.dom = old.dom
             /\ dom'[new.dom].nodeValue = new.node.props.nodeValue
             /\ dom'[new.dom].parentNode = dom[old.dom].parentNode
             /\ new.dom \in Range(dom'[dom'[new.dom].parentNode].childNodes)
             /\ IF dom[old.dom].nodeValue # new.node.props.nodeValue
                THEN /\ Cardinality(OpsOn(domOps', old.dom)) = 1
                     /\ \A i \in OpsOn(domOps', old.dom) : domOps'[i].op = "setText"
                ELSE OpsOn(domOps', old.dom) = {}]_vars

\* a pass changed the text of the span and did nothing else to the page
OnlyTextMutated ==
  /\ lastOp.op = "render"
  /\ Len(domOps) = 1
  /\ domOps[1].op = "setText"
  /\ dom[domOps[1].node].nodeValue = "2"

(***************************************************************************)
(* Child lists                                                             *)
(***************************************************************************)
\* the element of a sequence at an index, or a default beyond its end
At(seq, i, default) == IF i <= Len(seq) THEN seq[i] ELSE default

\* index i of the child list of an instance kept by a pass: old is the
\* instance before the pass, new the same instance after it
MatchedAtIndex(old, new, i) ==
  IF i > Len(ChildrenOf(new.node))
  THEN /\ new.children[i] = NoInstance
       /\ \A d \in Range(getDomNodes(old.children[i])) : dom'[d].parentNode = NoDom
  ELSE /\ new.children[i] # NoInstance
       /\ new.children[i].node = ChildrenOf(new.node)[i]
       /\ IF /\ At(old.children, i, NoInstance) # NoInstance
             /\ old.children[i].node.type = ChildrenOf(new.node)[i].type
             /\ old.children[i].key = ChildrenOf(new.node)[i].key
          THEN new.children[i].id = old.children[i].id
          ELSE /\ new.children[i].id > instCount
               /\ \A d \in Range(getDomNodes(At(old.children, i, NoInstance))) :
                    dom'[d].parentNode = NoDom

\* C9: child lists are matched strictly by index: the new child at index i is
\* reconciled against the old instance at index i whatever the keys are (the
\* instance is kept when type and key agree, and replaced by a fresh one
\* otherwise, never by the instance of another index), and an index with no
\* new child has its old host nodes removed and null recorded.
ChildrenMatchedByIndex ==
  [][lastOp'.op = "render" =>
       \A old \in InstancesOf(rootInstance) :
         \A new \in InstancesOf(rootInstance') :
           (old.kind \in {HOST, FRAGMENT} /\ new.id = old.id) =>
             /\ Len(new.children) = Max(Len(old.children), Len(ChildrenOf(new.node)))
             /\ \A i \in DOMAIN new.children : MatchedAtIndex(old, new, i)]_vars

\* a pass re-rendered the unkeyed children [a, b, c] as [x, a, b, c]: three
\* instances kept at their index with their text rewritten, one mounted
ShiftedListRewritten ==
  /\ lastOp.op = "render"
  /\ \E inst \in InstancesOf(rootInstance) :
       /\ inst.kind = HOST
       /\ inst.node = Scenes("list")[2]
       /\ Cardinality({i \in DOMAIN domOps : domOps[i].op = "setText"}) = 3
       /\ Cardinality({i \in DOMAIN domOps : domOps[i].op = "create"}) = 2
       /\ \E i \in DOMAIN domOps :
            domOps[i].op = "create" /\ domOps[i].node = inst.children[4].dom

(***************************************************************************)
(* setup                                                                   *)
(***************************************************************************)
\* C10: setup with an absent container or a null root node throws before any
\* effect: the root binding, the committed instance tree, the page, the hook
\* store and the effect queue are unchanged, and no render pass runs.
SetupRejectsMissingArguments ==
  [][(lastOp'.op = "setup" /\ (lastOp'.container = NoDom \/ lastOp'.node = NullVNode)) =>
       /\ error' # ""
       /\ passes' = passes
       /\ UNCHANGED <<rootContainer, rootNode, rootInstance, dom>>
       /\ UNCHANGED <<state, cursor, visited, componentStack, queue>>
       /\ UNCHANGED <<microtasks, renderScheduled, flushScheduled>>
       /\ UNCHANGED <<trace, domOps, execLog>>]_vars

\* setup threw on a null root node while a tree with pending effects was committed
SetupThrewOverCommittedTree ==
  /\ lastOp.op = "setup"
  /\ lastOp.node = NullVNode
  /\ lastOp.container = Container
  /\ error # ""
  /\ rootInstance # NoInstance
  /\ dom[Container].childNodes # <<>>
  /\ state # EmptyMap

\* C11: a successful setup clears the shared state of the previous root: the
\* one initial pass runs inside setup, after it the container holds only the
\* host nodes of the new tree and the hook store only the paths that pass
\* entered, and no effect body or cleanup queued for the previous root is
\* executed afterwards.
SetupClearsPreviousRoot ==
  [][/\ (lastOp'.op = "setup" /\ error' = "") =>
          /\ passes' = passes + 1
          /\ dom'[Container].childNodes = getDomNodes(rootInstance')
          /\ (DOMAIN state' \cup DOMAIN cursor') \subseteq
               {trace'[i].path : i \in {k \in DOMAIN trace' : trace'[k].hook = "enter"}}
     /\ \A i \in DOMAIN execLog' : execLog'[i].id > execLog'[i].mark]_vars

\* setup replaced a root whose effects were still queued
SetupOverQueuedEffects ==
  /\ lastOp.op = "setup"
  /\ error = ""
  /\ setups = 2
  /\ \E i \in DOMAIN queue : queue[i].kind = "effect" /\ queue[i].effect <= rootMark

\* C12: useState or useEffect called while the component call stack is empty
\* raises an error and changes nothing: no slot is created or written, no
\* cursor advances, nothing is pushed onto the effect queue.
HookOutsideComponentThrows ==
  [][lastOp'.op = "hook" =>
       /\ error' # ""
       /\ UNCHANGED <<state, cursor, queue, visited, componentStack>>
       /\ UNCHANGED <<effectCount, arrCount, microtasks, passes, requests>>]_vars

\* useEffect was called outside a component while the store held slots
HookCalledAfterPass ==
  /\ lastOp.op = "hook"
  /\ lastOp.hook = "useEffect"
  /\ error # ""
  /\ "" \in DOMAIN state /\ "" \in DOMAIN cursor
  /\ queue # <<>>

(***************************************************************************)
(* Components that render nothing                                          *)
(***************************************************************************)
\* the COMPONENT instances of a tree whose function returned null
ReturnedNull(root) ==
  {c \in InstancesOf(root) :
     c.kind = COMPONENT /\ (c.children = <<>> \/ c.children = <<NoInstance>>)}

\* C13: for a component whose function returned null in a render pass, after
\* the pass no host node of the component's subtree is on the page, the nodes
\* it rendered in an earlier pass included, and the hook store holds no slot
\* for the component's path.
NullComponentLeavesNothing ==
  [][lastOp'.op \in {"render", "setup"} =>
       \A c \in ReturnedNull(rootInstance') :
         /\ \A old \in InstancesOf(rootInstance) :
              old.id = c.id =>
                \A k \in DOMAIN getDomNodes(old) :
                  dom'[getDomNodes(old)[k]].parentNode = NoDom
         /\ c.path \in DOMAIN state' => state'[c.path].slots = <<>>]_vars

\* a pass in which a component that had rendered a host node returned null
NullAfterHostNode ==
  /\ lastOp.op = "render"
  /\ \E c \in ReturnedNull(rootInstance) :
       /\ c.children = <<NoInstance>>
       /\ c.path \in DOMAIN state
       /\ state[c.path].slots # <<>>
  /\ \E i \in DOMAIN domOps : domOps[i].op = "remove"

(***************************************************************************)
(* A pass over an unchanged tree                                           *)
(***************************************************************************)
\* no state slot read in the last pass has been written since
NoStateChange ==
  \A s \in setters :
    /\ s.path \in DOMAIN state
    /\ state[s.path].id = s.arr
    /\ SlotValue(state[s.path].slots, s.cursor) = s.state

RECURSIVE Shape(_)
\* an instance tree without the node and path fields
Shape(inst) ==
  IF inst = NoInstance THEN inst
  ELSE [id |-> inst.id, kind |-> inst.kind, dom |-> inst.dom, key |-> inst.key,
        children |-> [i \in DOMAIN inst.children |-> Shape(inst.children[i])]]

\* the values of the state slots of a hook store
StateSlots(store) ==
  [path \in DOMAIN store |->
     [i \in DOMAIN store[path].slots |->
        IF store[path].slots[i].kind = "state" THEN store[path].slots[i].value
        ELSE Undefined]]

\* C14: a render pass over the committed tree with no state change since the
\* previous pass is structurally idempotent: no host node is created,
\* inserted, moved or removed, every instance is the same object with the
\* same host node and the same children apart from its node and path fields,
\* and the values of the state slots are unchanged.
SecondPassIdempotent ==
  [][(lastOp'.op = "render" /\ rootInstance # NoInstance /\ NoStateChange) =>
       /\ \A i \in DOMAIN domOps' :
            domOps'[i].op \notin {"create", "append", "insert", "remove"}
       /\ Shape(rootInstance') = Shape(rootInstance)
       /\ StateSlots(state') = StateSlots(state)]_vars

\* a second pass ran over a tree with components and an unchanged hook store
UnchangedTreeRenderedAgain ==
  /\ lastOp.op = "render"
  /\ passes = 2
  /\ domOps = <<>>
  /\ \E c \in ReturnedNull(rootInstance) : c.children = <<NoInstance>>

(***************************************************************************)
(* Requests made during a pass, and the pass a write leads to              *)
(***************************************************************************)
\* the slot of the setter s has been written since the pass that created s
WrittenSince(s) ==
  /\ s.path \in DOMAIN state
  /\ state[s.path].id = s.arr
  /\ LiveSlot(state, s) # s.state

\* C15: the gate clears its pending flag before the wrapped function runs, so
\* a render request made while a pass is running is not absorbed: it leaves
\* exactly one render task for a later tick; a setter's write always leaves a
\* render task pending, and the pass that task runs reads the written value
\* in the component the setter belongs to.
WriteLeadsToPassReadingIt ==
  [][/\ lastOp'.op = "render" =>
          /\ renderScheduled' <=> requests' >= 1
          /\ RenderTasks(microtasks') = (IF requests' >= 1 THEN 1 ELSE 0)
     /\ (lastOp'.op = "setState" /\ state' # state) =>
          renderScheduled' /\ RenderTasks(microtasks') = 1
     /\ lastOp'.op = "render" =>
          \A s \in setters :
            (WrittenSince(s) /\ s.path \in Entered' /\ state'[s.path].id = s.arr) =>
              \E i \in DOMAIN trace' :
                /\ trace'[i].hook = "useState"
                /\ trace'[i].path = s.path
                /\ trace'[i].cursor = s.cursor
                /\ trace'[i].value = LiveSlot(state, s)]_vars

\* a pass during which a setter was called has left a render task behind
RequestDuringPass ==
  /\ lastOp.op = "render"
  /\ requests >= 1
  /\ renderScheduled
  /\ RenderTasks(microtasks) = 1

(***************************************************************************)
(* The effect flush                                                        *)
(***************************************************************************)
\* the queue item has been executed according to the log
ItemExecuted(item, log) ==
  \E k \in DOMAIN log :
    /\ log[k].kind = item.kind
    /\ log[k].path = item.path
    /\ log[k].cursor = item.cursor
    /\ log[k].id = (IF item.kind = "effect" THEN item.effect ELSE item.cleanup)

\* C16: the effect flush executes the queued callbacks strictly first in,
\* first out: when a queued item has been executed, every item queued before
\* it has been executed, so an effect body queued before a later component's
\* cleanup runs before that cleanup.
FlushRunsInQueueOrder ==
  [][lastOp'.op = "flush" =>
       \A i, j \in DOMAIN queue :
         (i < j /\ ItemExecuted(queue[j], execLog')) =>
           ItemExecuted(queue[i], execLog')]_vars

\* a flush found the effect body of one component queued before the cleanup of another
EffectQueuedBeforeCleanup ==
  /\ lastOp.op = "flush"
  /\ \E m, n \in DOMAIN microtasks :
       /\ m < n
       /\ microtasks[m].kind = "effect" /\ microtasks[n].kind = "effect"
       /\ microtasks[m].path # microtasks[n].path
       /\ \E k \in DOMAIN execLog :
            /\ execLog[k].kind = "cleanup"
            /\ execLog[k].pass = passes
            /\ execLog[k].path = microtasks[n].path

\* how often the effect body id is queued, waiting as a microtask, or logged as executed
Queued(q, id) == Cardinality({i \in DOMAIN q : q[i].kind = "effect" /\ q[i].effect = id})
Ran(log, id) == Cardinality({k \in DOMAIN log : log[k].kind = "effect" /\ log[k].id = id})

\* C17: no effect body and no cleanup executes while a render pass is running;
\* every effect body queued during a pass executes exactly once, in a later
\* tick: at any time it is either still queued, or waiting as a microtask, or
\* has executed once, and it executes in a microtask of its own; after a flush
\* the effect queue is empty.
EffectsRunOnceAfterPass ==
  [][/\ lastOp'.op \in {"render", "setup"} => execLog' = execLog
     /\ lastOp'.op = "flush" => queue' = <<>>
     /\ execLog' # execLog => lastOp'.op \in {"flush", "effect"}
     /\ \A id \in 1..effectCount' :
          /\ Queued(queue', id) + Queued(microtasks', id) + Ran(execLog', id) = 1
          /\ Ran(execLog', id) > Ran(execLog, id) =>
               /\ lastOp'.op = "effect"
               /\ Queued(microtasks, id) = 1]_vars

\* the effect bodies a pass queued behind a cleanup have all executed, each in its own tick
EffectsOfSecondPassRan ==
  /\ lastOp.op = "effect"
  /\ queue = <<>>
  /\ \A id \in 1..effectCount : Ran(execLog, id) = 1
  /\ \E k \in DOMAIN execLog : execLog[k].kind = "cleanup"
  /\ effectCount >= 3

(***************************************************************************)
(* Updaters                                                                *)
(***************************************************************************)
\* C18: an updater passed to a setter receives the value useState returned in
\* the pass that created the setter, whatever the slot holds at the call: a
\* call of prev => prev + 1 leaves the slot at the captured value plus one,
\* also when the slot has been written since.
UpdaterGetsCapturedState ==
  [][(lastOp'.op = "setState" /\ lastOp'.arg.fn /\ IsLive(state, lastOp'.setter)) =>
       /\ LiveSlot(state', lastOp'.setter) = lastOp'.setter.state + lastOp'.arg.value
       /\ renderScheduled']_vars

\* setup of the bump application wrote the counter's slot during the pass; the
\* handler then called the setter of that pass with prev => prev + 1
UpdaterCalledOnWrittenSlot ==
  /\ lastOp.op = "setState"
  /\ lastOp.arg.fn
  /\ rootNode # NullVNode
  /\ rootNode.props.app = "bump"
  /\ passes = 1
  /\ calls = 2
  /\ requests = 2
  /\ LiveSlot(state, lastOp.setter) = lastOp.setter.state + 1

(***************************************************************************)
(* The hook cursor                                                         *)
(***************************************************************************)
\* C19: at every invocation of a component function the hook cursor of the
\* component's path is 0 when the function starts, for an update in place as
\* well as for a mount at a path that already has a slot list and a cursor
\* (a keyed child replaced by another component type under the same key,
\* keyed siblings that changed places).
CursorZeroOnEntry ==
  \A i \in DOMAIN trace : trace[i].hook = "enter" => trace[i].cursor = 0

\* a pass mounted another component type under the key of a component of the previous pass
KeyedChildReplaced ==
  /\ lastOp.op = "render"
  /\ \E i \in DOMAIN trace :
       /\ trace[i].hook = "enter"
       /\ trace[i].type = "Other"
       /\ trace[i].path = "ka"
  /\ Len(state["ka"].slots) > 1

(***************************************************************************)
(* Replacing an instance                                                   *)
(***************************************************************************)
\* the child oc of the kept HOST instance (new after the pass) was replaced by
\* nc, mounted for the VNode at index i of the new child list
Remounted(new, i, oc, nc) ==
  /\ \A d \in Range(getDomNodes(oc)) :
       dom'[d].parentNode = NoDom /\ d \notin Range(dom'[new.dom].childNodes)
  /\ nc # NoInstance
  /\ nc.node = ChildrenOf(new.node)[i]
  /\ nc.path = createChildPath(new.path, nc.node.key, i - 1, nc.node.type,
                               ChildrenOf(new.node))
  /\ \A x \in InstancesOf(nc) : x.id > instCount /\ (x.dom # NoDom => x.dom > Len(dom))
  /\ \A d \in Range(getDomNodes(nc)) : dom'[d].parentNode = new.dom

\* C20: when reconcile receives a previous instance and a VNode of another
\* type or key, every host node of the previous instance is removed from the
\* parent, a new instance with new host nodes is mounted at the same path
\* and returned, and no instance and no host node of the old subtree is
\* part of the new one.
MismatchUnmountsAndMounts ==
  [][lastOp'.op = "render" =>
       \A old \in InstancesOf(rootInstance) :
         \A new \in InstancesOf(rootInstance') :
           (old.kind = HOST /\ new.id = old.id) =>
             \A i \in DOMAIN old.children \cap DOMAIN ChildrenOf(new.node) :
               (/\ old.children[i] # NoInstance
                /\ \/ old.children[i].node.type # ChildrenOf(new.node)[i].type
                   \/ old.children[i].key # ChildrenOf(new.node)[i].key) =>
                 Remounted(new, i, old.children[i], new.children[i])]_vars

\* a pass replaced two keyed component children whose type or key had changed
KeyedChildrenRemounted ==
  /\ lastOp.op = "render"
  /\ \E inst \in InstancesOf(rootInstance) :
       /\ inst.kind = HOST
       /\ Len(inst.children) = 2
       /\ inst.children[1] # NoInstance /\ inst.children[2] # NoInstance
       /\ inst.children[1].node = OtherEl("b", TRUE)
       /\ inst.children[2].node = OtherEl("a", TRUE)
       /\ Cardinality({k \in DOMAIN domOps : domOps[k].op = "remove"}) = 2
       /\ \E k \in DOMAIN domOps :
            domOps[k].op = "create" /\ domOps[k].node = getDomNodes(inst.children[2])[1]

(***************************************************************************)
(* Identity paths                                                          *)
(***************************************************************************)
\* the COMPONENT instances of an instance tree
ComponentsOf(root) == {c \in InstancesOf(root) : c.kind = COMPONENT}

\* C21: in every committed instance tree (no scene has duplicate sibling
\* keys) no two distinct COMPONENT instances have the same identity path, so
\* no two live components use the same hook slot list; this includes a
\* component whose function directly returns another component element.
ComponentPathsDistinct ==
  \A a, b \in ComponentsOf(rootInstance) : a.id # b.id => a.path # b.path

\* a committed tree in which a component's only child is a component
ComponentReturnsComponent ==
  /\ lastOp.op = "render"
  /\ \E a \in ComponentsOf(rootInstance) :
       /\ Len(a.children) = 1
       /\ a.children[1] # NoInstance
       /\ a.children[1].kind = COMPONENT
       /\ a.path \in DOMAIN state
       /\ Len(state[a.path].slots) >= 2

(***************************************************************************)
(* Hook state of a component updated in place                              *)
(***************************************************************************)
\* C22: a component instance that a pass updates in place keeps its hook
\* state: its useState returns the value the slot held before the pass (the
\* value its setter wrote last, or the initial value), and after the pass the
\* store holds a slot list for the instance's current path with that value,
\* also when the types of its earlier unkeyed siblings changed.
UpdatedComponentKeepsState ==
  [][lastOp'.op = "render" =>
       \A old \in ComponentsOf(rootInstance) :
         \A new \in ComponentsOf(rootInstance') :
           new.id = old.id =>
             \A s \in setters :
               (s.path = old.path /\ IsLive(state, s)) =>
                 /\ \E i \in DOMAIN trace' :
                      /\ trace'[i].hook = "useState"
                      /\ trace'[i].path = new.path
                      /\ trace'[i].cursor = s.cursor
                      /\ trace'[i].value = LiveSlot(state, s)
                 /\ new.path \in DOMAIN state'
                 /\ requests' = 0 =>
                      SlotValue(state'[new.path].slots, s.cursor) = LiveSlot(state, s)]_vars

\* a pass kept the second counter at its index while the first child became a <div>
SiblingTypeChanged ==
  /\ lastOp.op = "render"
  /\ \E inst \in InstancesOf(rootInstance) :
       /\ inst.kind = HOST
       /\ Len(inst.children) = 2
       /\ inst.children[1] # NoInstance /\ inst.children[2] # NoInstance
       /\ inst.children[1].kind = HOST
       /\ inst.children[2].kind = COMPONENT
       /\ inst.children[2].id < inst.children[1].id
       /\ inst.children[2].path = ".i1.cCounter_0"

\* C23: after every completed render pass the host children of the container
\* and of every HOST instance's node are exactly the DOM footprints of its
\* instance children, concatenated in child order: no host node is attached
\* without an owning instance, no owned node is detached, and the document
\* order is the order of the instance tree.
DomEqualsFootprints ==
  (lastOp.op \in {"render", "setup"} /\ error = "" /\ rootContainer # NoDom) =>
    /\ dom[rootContainer].childNodes = getDomNodes(rootInstance)
    /\ \A inst \in InstancesOf(rootInstance) :
         inst.kind = HOST =>
           /\ dom[inst.dom].childNodes = getDomNodesOfAll(inst.children)
           /\ \A n \in Range(getDomNodesOfAll(inst.children)) :
                dom[n].parentNode = inst.dom

\* a pass gave a component that rendered null a host node, while the sibling
\* after the component stayed
NullBecameNodeBeforeSibling ==
  /\ lastOp.op = "render"
  /\ error = ""
  /\ \E inst \in InstancesOf(rootInstance) :
       /\ inst.kind = HOST
       /\ Len(inst.children) = 2
       /\ inst.children[1] # NoInstance /\ inst.children[2] # NoInstance
       /\ inst.children[1].kind = COMPONENT
       /\ getDomNodes(inst.children[1]) # <<>>
       /\ \A n \in Range(getDomNodes(inst.children[1])) :
            \E i \in DOMAIN domOps : domOps[i].op = "create" /\ domOps[i].node = n
       /\ inst.children[2].kind = TEXT
       /\ \A i \in DOMAIN domOps : domOps[i].node # inst.children[2].dom

====
